---- MODULE Spec2Model ----
(***************************************************************************)
(* launchk: the launchd query layer (launchd/query.rs) and the job type    *)
(* filter bitmask (launchd/job_type_filter.rs).                            *)
(*                                                                         *)
(* Every query function is a sequence of steps of the calling thread:      *)
(* the call itself, the cache lock and removal (load/unload), each         *)
(* dispatch of a request to the XPC pipe, and each reply of the pipe.      *)
(* The pipe is an external collaborator: a reply is any outcome it can     *)
(* produce, and a pipe that blocks forever is a reply that never comes.    *)
(***************************************************************************)
EXTENDS Integers, Sequences, FiniteSets, TLC

\* ------------------------------------------------------------------ bounds
NumLabels == 2
NumThreads == 2

Labels == 1..NumLabels
Threads == 1..NumThreads
\* The one calling thread of the single-caller specifications
Main == CHOOSE t \in Threads : \A u \in Threads : t <= u
NoThread == 0
NoName == 0
NoDomain == 0

\* ------------------------------------------------- xpc_sys::enums::DomainType
System == 1
User == 2
UserLogin == 3
Session == 4
PID == 5
RequestorUserDomain == 6
RequestorDomain == 7
Unknown == 8

Domains == System..RequestorDomain

\* From<u64> for DomainType: the seven known values, otherwise Unknown
DomainTypeFrom(n) == IF n \in Domains THEN n ELSE Unknown

\* ------------------------------------------------------------ u64 and usize
\* A u64 is four 16-bit limbs, most significant first.
LimbMax == 2^16 - 1
U64Zero == <<0, 0, 0, 0>>
U64Page == <<0, 0, 0, 4096>>
U64Above32 == <<0, 1, 0, 0>>
U64Max == <<LimbMax, LimbMax, LimbMax, LimbMax>>
U64Samples == {U64Zero, U64Page, U64Above32, U64Max}

PointerWidths == {32, 64}

\* usize::try_from(u64): fails when the value needs more than `width` bits
usize_try_from(v, width) ==
    IF \A i \in 1..(4 - (width \div 16)) : v[i] = 0
    THEN [ok |-> TRUE, val |-> v]
    ELSE [ok |-> FALSE, val |-> U64Zero]

ShmemHandle == 1
NoShmem == 0

\* ------------------------------------------------------- responses, outcomes
\* A decoded response dictionary, as far as this layer reads it: the
\* "services" entry and the "bytes-written" entry.
ServicesValues ==
    {[kind |-> "absent", keys |-> {}], [kind |-> "string", keys |-> {}]}
    \cup {[kind |-> "dict", keys |-> S] : S \in SUBSET Labels}

BytesValues ==
    {[kind |-> "absent", val |-> U64Zero], [kind |-> "int64", val |-> U64Zero]}
    \cup {[kind |-> "uint64", val |-> v] : v \in U64Samples}

NoResp == [services |-> [kind |-> "absent", keys |-> {}],
           bytes |-> [kind |-> "absent", val |-> U64Zero]]

TransportErrors == {"TransportFailure", "QueryError"}

Ok(r) == [ok |-> TRUE, err |-> "", resp |-> r]
Err(e) == [ok |-> FALSE, err |-> e, resp |-> NoResp]

\* What pipe_routine_with_error_handling can return for a request
Outcomes(req) ==
    {Err(e) : e \in TransportErrors}
    \cup CASE req.routine = "LIST_SERVICES" ->
                {Ok([NoResp EXCEPT !.services = s]) : s \in ServicesValues}
           [] req.routine = "DUMPSTATE" ->
                {Ok([NoResp EXCEPT !.bytes = b]) : b \in BytesValues}
           [] OTHER -> {Ok(NoResp)}

\* XPCDictionary::get_as_dictionary(&["services"])
get_as_dictionary(resp) ==
    IF resp.services.kind = "dict"
    THEN [ok |-> TRUE, err |-> "", keys |-> resp.services.keys]
    ELSE [ok |-> FALSE, err |-> "MalformedResponse", keys |-> {}]

\* XPCDictionary::get(&["bytes-written"])
get_bytes_written(resp) ==
    IF resp.bytes.kind = "absent"
    THEN [ok |-> FALSE, err |-> "MalformedResponse", obj |-> resp.bytes]
    ELSE [ok |-> TRUE, err |-> "", obj |-> resp.bytes]

\* TryXPCValue<u64>::xpc_value: only an XPC uint64 object yields a u64
xpc_value_u64(obj) ==
    IF obj.kind = "uint64"
    THEN [ok |-> TRUE, err |-> "", val |-> obj.val]
    ELSE [ok |-> FALSE, err |-> "ConversionFailure", val |-> U64Zero]

\* ------------------------------------------------------------------ results
NoResult == [kind |-> "none", err |-> "", resp |-> NoResp, domain |-> NoDomain,
             labels |-> {}, bytes |-> U64Zero, shmem |-> NoShmem]
ResOk(r) == [NoResult EXCEPT !.kind = "ok", !.resp = r]
ResErr(e) == [NoResult EXCEPT !.kind = "err", !.err = e]
ResFound(d, r) == [NoResult EXCEPT !.kind = "ok", !.domain = d, !.resp = r]
ResSet(S) == [NoResult EXCEPT !.kind = "ok", !.labels = S]
ResDump(n, h) == [NoResult EXCEPT !.kind = "ok", !.bytes = n, !.shmem = h]
ResPanic == [NoResult EXCEPT !.kind = "panic"]

FromOutcome(out) == IF out.ok THEN ResOk(out.resp) ELSE ResErr(out.err)

\* -------------------------------------------------------------------- state
VARIABLES
    ENTRY_STATUS_CACHE, \* label -> cached status (a partial function)
    lock,               \* the thread holding the cache mutex, or NoThread
    pc,                 \* per thread: idle, lock, locked, dispatch, waiting, done
    call,               \* per thread: the running call and its arguments
    queue,              \* per thread: the domains still to be visited
    acc,                \* per thread: list_all's collected labels, with multiplicity
    sent,               \* per thread: the requests dispatched by the running call
    replies,            \* per thread: the outcomes the pipe returned to it
    result,             \* per thread: what the call returned
    repopulated,        \* history: the cache entry was refilled after removal
    euid,               \* rs_geteuid() of the process
    pointer_width,      \* the build's usize width
    stub,               \* per domain: what the pipe is set up to answer
    jtf,                \* a JobTypeFilter value
    display             \* the last rendering: the mask rendered and its text

vars == <<ENTRY_STATUS_CACHE, lock, pc, call, queue, acc, sent, replies, result,
          repopulated, euid, pointer_width, stub, jtf, display>>

queryVars == <<ENTRY_STATUS_CACHE, lock, pc, call, queue, acc, sent, replies,
               result, repopulated, euid, pointer_width, stub>>

filterVars == <<jtf, display>>

Statuses == {"loaded", "unloaded"}

NoCall == [op |-> "none", label |-> NoName, domain |-> NoDomain, shmem |-> NoShmem]
NoAcc == [l \in Labels |-> 0]

Request(routine, type, name) == [routine |-> routine, type |-> type, name |-> name]

\* HashMap::remove
Remove(m, l) == [k \in (DOMAIN m) \ {l} |-> m[k]]
\* HashMap::insert
Insert(m, l, s) == [k \in (DOMAIN m) \cup {l} |-> IF k = l THEN s ELSE m[k]]

Range(a, b) == [i \in 1..(IF b > a THEN b - a ELSE 0) |-> a + i - 1]

\* --------------------------------------------------------------------- Init
InitProcess ==
    /\ ENTRY_STATUS_CACHE = <<>>
    /\ lock = NoThread
    /\ pc = [t \in Threads |-> "idle"]
    /\ call = [t \in Threads |-> NoCall]
    /\ queue = [t \in Threads |-> <<>>]
    /\ acc = [t \in Threads |-> NoAcc]
    /\ sent = [t \in Threads |-> <<>>]
    /\ replies = [t \in Threads |-> <<>>]
    /\ result = [t \in Threads |-> NoResult]
    /\ repopulated = [t \in Threads |-> FALSE]
    /\ euid \in {0, 501}
    /\ pointer_width \in PointerWidths
    /\ jtf = 0
    /\ display = [mask |-> 0, text |-> <<>>]

\* The pipe answers as launchd decides: no domain is stubbed.
Init ==
    /\ InitProcess
    /\ stub = [d \in Domains |-> "any"]

\* A call starts: the arguments are bound, nothing is sent yet.
Begin(t, c, q, next) ==
    /\ pc[t] = "idle"
    /\ call' = [call EXCEPT ![t] = c]
    /\ queue' = [queue EXCEPT ![t] = q]
    /\ pc' = [pc EXCEPT ![t] = next]
    /\ UNCHANGED <<ENTRY_STATUS_CACHE, lock, acc, sent, replies, result,
                   repopulated, euid, pointer_width, stub>>
    /\ UNCHANGED filterVars

\* A call returns `r` to its caller.
Finish(t, r) ==
    /\ pc' = [pc EXCEPT ![t] = "done"]
    /\ result' = [result EXCEPT ![t] = r]

\* ------------------------------------------------------------ load / unload
load(t, label) ==
    Begin(t, [NoCall EXCEPT !.op = "load", !.label = label], <<>>, "lock")

unload(t, label) ==
    Begin(t, [NoCall EXCEPT !.op = "unload", !.label = label], <<>>, "lock")

\* ENTRY_STATUS_CACHE.lock().expect("Must invalidate"): blocks until free
lock_cache(t) ==
    /\ pc[t] = "lock"
    /\ lock = NoThread
    /\ lock' = t
    /\ pc' = [pc EXCEPT ![t] = "locked"]
    /\ UNCHANGED <<ENTRY_STATUS_CACHE, call, queue, acc, sent, replies, result,
                   repopulated, euid, pointer_width, stub>>
    /\ UNCHANGED filterVars

\* Faulty variant: the guard is released without removing the entry.
remove_entry_skipped(t) ==
    /\ pc[t] = "locked"
    /\ lock = t
    /\ lock' = NoThread
    /\ pc' = [pc EXCEPT ![t] = "dispatch"]
    /\ UNCHANGED <<ENTRY_STATUS_CACHE, call, queue, acc, sent, replies, result,
                   repopulated, euid, pointer_width, stub>>
    /\ UNCHANGED filterVars

\* Faulty variant: the guard is bound to a name and lives until the function returns.
remove_entry_guard_kept(t) ==
    /\ pc[t] = "locked"
    /\ lock = t
    /\ ENTRY_STATUS_CACHE' = Remove(ENTRY_STATUS_CACHE, call[t].label)
    /\ pc' = [pc EXCEPT ![t] = "dispatch"]
    /\ UNCHANGED <<lock, call, queue, acc, sent, replies, result,
                   repopulated, euid, pointer_width, stub>>
    /\ UNCHANGED filterVars

\* .remove(&label.into()); the temporary guard is dropped with the statement
remove_entry(t) ==
    /\ pc[t] = "locked"
    /\ lock = t
    /\ ENTRY_STATUS_CACHE' = Remove(ENTRY_STATUS_CACHE, call[t].label)
    /\ lock' = NoThread
    /\ pc' = [pc EXCEPT ![t] = "dispatch"]
    /\ UNCHANGED <<call, queue, acc, sent, replies, result,
                   repopulated, euid, pointer_width, stub>>
    /\ UNCHANGED filterVars

\* ---------------------------------------------- the other operations' calls
find_in_all_range == Range(System, RequestorDomain)

find_in_all(t, label) ==
    Begin(t, [NoCall EXCEPT !.op = "find_in_all", !.label = label],
          find_in_all_range, "dispatch")

list(t, domain_type, name) ==
    Begin(t, [NoCall EXCEPT !.op = "list", !.domain = domain_type, !.label = name],
          <<>>, "dispatch")

\* Faulty variant: the User domain is queried whatever the effective uid.
everything_always_user(uid) ==
    <<System, RequestorUserDomain, RequestorDomain, User>>

everything(uid) ==
    <<System, RequestorUserDomain, RequestorDomain>>
    \o (IF uid = 0 THEN <<User>> ELSE <<>>)

list_all(t) ==
    Begin(t, [NoCall EXCEPT !.op = "list_all"], everything(euid), "dispatch")

\* Faulty variant: enable invalidates the label's cache entry as load does.
enable_invalidating(t, label, domain_type) ==
    /\ pc[t] = "idle"
    /\ lock = NoThread
    /\ ENTRY_STATUS_CACHE' = Remove(ENTRY_STATUS_CACHE, label)
    /\ call' = [call EXCEPT ![t] =
                    [NoCall EXCEPT !.op = "enable", !.label = label,
                                   !.domain = domain_type]]
    /\ pc' = [pc EXCEPT ![t] = "dispatch"]
    /\ UNCHANGED <<lock, queue, acc, sent, replies, result,
                   repopulated, euid, pointer_width, stub>>
    /\ UNCHANGED filterVars

enable(t, label, domain_type) ==
    Begin(t, [NoCall EXCEPT !.op = "enable", !.label = label,
                            !.domain = domain_type], <<>>, "dispatch")

disable(t, label, domain_type) ==
    Begin(t, [NoCall EXCEPT !.op = "disable", !.label = label,
                            !.domain = domain_type], <<>>, "dispatch")

dumpjpcategory(t) ==
    Begin(t, [NoCall EXCEPT !.op = "dumpjpcategory"], <<>>, "dispatch")

procinfo(t) ==
    Begin(t, [NoCall EXCEPT !.op = "procinfo"], <<>>, "dispatch")

\* XPCShmem::new_task_self(0x1400000, MAP_SHARED)?: the allocation either
\* yields a region or fails, and a failure returns before any request.
dumpstate(t) ==
    /\ pc[t] = "idle"
    /\ \E allocated \in BOOLEAN :
        IF allocated
        THEN /\ call' = [call EXCEPT ![t] =
                            [NoCall EXCEPT !.op = "dumpstate", !.shmem = ShmemHandle]]
             /\ pc' = [pc EXCEPT ![t] = "dispatch"]
             /\ UNCHANGED result
        ELSE /\ call' = [call EXCEPT ![t] = [NoCall EXCEPT !.op = "dumpstate"]]
             /\ Finish(t, ResErr("ResourceAllocationFailure"))
    /\ UNCHANGED <<ENTRY_STATUS_CACHE, lock, queue, acc, sent, replies,
                   repopulated, euid, pointer_width, stub>>
    /\ UNCHANGED filterVars

\* ----------------------------------------------------------------- the pipe
\* The request the running call builds next
NextRequest(t) ==
    LET c == call[t] IN
    CASE c.op = "find_in_all" -> Request("LIST_SERVICES", Head(queue[t]), c.label)
      [] c.op = "list" -> Request("LIST_SERVICES", c.domain, c.label)
      [] c.op = "list_all" -> Request("LIST_SERVICES", Head(queue[t]), NoName)
      [] c.op = "load" -> Request("LOAD_PATHS", NoDomain, NoName)
      [] c.op = "unload" -> Request("UNLOAD_PATHS", NoDomain, NoName)
      [] c.op = "enable" -> Request("ENABLE_NAMES", c.domain, c.label)
      [] c.op = "disable" -> Request("DISABLE_NAMES", c.domain, c.label)
      [] c.op = "dumpstate" -> Request("DUMPSTATE", NoDomain, NoName)
      [] c.op = "dumpjpcategory" -> Request("DUMPJPCATEGORY", NoDomain, NoName)
      [] c.op = "procinfo" -> Request("PROCINFO", NoDomain, NoName)

\* pipe_routine_with_error_handling(): the request goes out, the thread blocks
pipe_routine(t) ==
    /\ pc[t] = "dispatch"
    /\ sent' = [sent EXCEPT ![t] = Append(@, NextRequest(t))]
    /\ pc' = [pc EXCEPT ![t] = "waiting"]
    /\ UNCHANGED <<ENTRY_STATUS_CACHE, lock, call, queue, acc, replies, result,
                   repopulated, euid, pointer_width, stub>>
    /\ UNCHANGED filterVars

Pending(t) == sent[t][Len(sent[t])]

\* The outcomes the pipe may give the pending request (all of them, unless
\* the pipe is stubbed for the request's domain)
Allowed(t) ==
    LET req == Pending(t) IN
    {out \in Outcomes(req) :
        \/ req.type \notin Domains
        \/ stub[req.type] = "any"
        \/ (stub[req.type] = "ok") = out.ok}

Received(t, out) ==
    /\ replies' = [replies EXCEPT ![t] = Append(@, out)]

\* ------------------------------------------------------------------ replies
PassThrough == {"list", "load", "unload", "enable", "disable",
                "dumpjpcategory", "procinfo"}

\* Faulty variant: a failed request is sent once more before the error is returned.
passthrough_reply_retrying(t) ==
    /\ pc[t] = "waiting"
    /\ call[t].op \in PassThrough
    /\ \E out \in Allowed(t) :
        /\ Received(t, out)
        /\ IF ~out.ok /\ Len(sent[t]) < 2
           THEN pc' = [pc EXCEPT ![t] = "dispatch"] /\ UNCHANGED result
           ELSE Finish(t, FromOutcome(out))
    /\ UNCHANGED <<ENTRY_STATUS_CACHE, lock, call, queue, acc, sent,
                   repopulated, euid, pointer_width, stub>>
    /\ UNCHANGED filterVars

\* list, load, unload, enable, disable, dumpjpcategory, procinfo: the pipe's
\* outcome is the function's value
passthrough_reply(t) ==
    /\ pc[t] = "waiting"
    /\ call[t].op \in PassThrough
    /\ \E out \in Allowed(t) :
        /\ Received(t, out)
        /\ Finish(t, FromOutcome(out))
    /\ UNCHANGED <<ENTRY_STATUS_CACHE, lock, call, queue, acc, sent,
                   repopulated, euid, pointer_width, stub>>
    /\ UNCHANGED filterVars

\* Faulty variant: the loop goes on after a successful probe and the last success wins.
find_in_all_reply_last_wins(t) ==
    /\ pc[t] = "waiting"
    /\ call[t].op = "find_in_all"
    /\ \E out \in Allowed(t) :
        /\ Received(t, out)
        /\ queue' = [queue EXCEPT ![t] = Tail(@)]
        /\ LET r == IF out.ok
                    THEN ResFound(DomainTypeFrom(Head(queue[t])), out.resp)
                    ELSE result[t]
           IN IF Tail(queue[t]) = <<>>
              THEN Finish(t, IF r.kind = "ok" THEN r ELSE ResErr("NotFound"))
              ELSE /\ pc' = [pc EXCEPT ![t] = "dispatch"]
                   /\ result' = [result EXCEPT ![t] = r]
    /\ UNCHANGED <<ENTRY_STATUS_CACHE, lock, call, acc, sent,
                   repopulated, euid, pointer_width, stub>>
    /\ UNCHANGED filterVars

\* One turn of find_in_all's loop: a success returns the probed domain and
\* the response; a failure moves to the next domain, NotFound after the last
find_in_all_reply(t) ==
    /\ pc[t] = "waiting"
    /\ call[t].op = "find_in_all"
    /\ \E out \in Allowed(t) :
        /\ Received(t, out)
        /\ IF out.ok
           THEN /\ Finish(t, ResFound(DomainTypeFrom(Head(queue[t])), out.resp))
                /\ UNCHANGED queue
           ELSE /\ queue' = [queue EXCEPT ![t] = Tail(@)]
                /\ IF Tail(queue[t]) = <<>>
                   THEN Finish(t, ResErr("NotFound"))
                   ELSE /\ pc' = [pc EXCEPT ![t] = "dispatch"]
                        /\ UNCHANGED result
    /\ UNCHANGED <<ENTRY_STATUS_CACHE, lock, call, acc, sent,
                   repopulated, euid, pointer_width, stub>>
    /\ UNCHANGED filterVars

\* Faulty variant: a failing domain discards what the earlier domains contributed.
list_all_collect_reset(a, out) ==
    LET svc == IF out.ok THEN get_as_dictionary(out.resp)
               ELSE [ok |-> FALSE, err |-> out.err, keys |-> {}]
    IN IF svc.ok
       THEN [l \in Labels |-> a[l] + (IF l \in svc.keys THEN 1 ELSE 0)]
       ELSE NoAcc

\* filter_map + flat_map: the keys of "services" of a domain that answered
\* with one; nothing (after logging) for a domain that did not
list_all_collect(a, out) ==
    LET svc == IF out.ok THEN get_as_dictionary(out.resp)
               ELSE [ok |-> FALSE, err |-> out.err, keys |-> {}]
    IN IF svc.ok
       THEN [l \in Labels |-> a[l] + (IF l \in svc.keys THEN 1 ELSE 0)]
       ELSE a

\* HashSet::from_iter
HashSet_from_iter(a) == {l \in Labels : a[l] > 0}

list_all_reply(t) ==
    /\ pc[t] = "waiting"
    /\ call[t].op = "list_all"
    /\ \E out \in Allowed(t) :
        /\ Received(t, out)
        /\ acc' = [acc EXCEPT ![t] = list_all_collect(@, out)]
        /\ queue' = [queue EXCEPT ![t] = Tail(@)]
        /\ IF Tail(queue[t]) = <<>>
           THEN Finish(t, ResSet(HashSet_from_iter(acc'[t])))
           ELSE /\ pc' = [pc EXCEPT ![t] = "dispatch"]
                /\ UNCHANGED result
    /\ UNCHANGED <<ENTRY_STATUS_CACHE, lock, call, sent,
                   repopulated, euid, pointer_width, stub>>
    /\ UNCHANGED filterVars

\* What dumpstate makes of the pipe's outcome
dumpstate_value(out, shmem, width) ==
    IF ~out.ok THEN ResErr(out.err)
    ELSE LET field == get_bytes_written(out.resp) IN
         IF ~field.ok THEN ResErr(field.err)
         ELSE LET bytes_written == xpc_value_u64(field.obj) IN
              IF ~bytes_written.ok THEN ResErr(bytes_written.err)
              ELSE LET size == usize_try_from(bytes_written.val, width) IN
                   IF size.ok THEN ResDump(size.val, shmem)
                   ELSE ResPanic   \* .unwrap()

dumpstate_reply(t) ==
    /\ pc[t] = "waiting"
    /\ call[t].op = "dumpstate"
    /\ \E out \in Allowed(t) :
        /\ Received(t, out)
        /\ Finish(t, dumpstate_value(out, call[t].shmem, pointer_width))
    /\ UNCHANGED <<ENTRY_STATUS_CACHE, lock, call, queue, acc, sent,
                   repopulated, euid, pointer_width, stub>>
    /\ UNCHANGED filterVars

\* The caller takes the result; the thread is free for its next call.
Return(t) ==
    /\ pc[t] = "done"
    /\ pc' = [pc EXCEPT ![t] = "idle"]
    /\ call' = [call EXCEPT ![t] = NoCall]
    /\ queue' = [queue EXCEPT ![t] = <<>>]
    /\ acc' = [acc EXCEPT ![t] = NoAcc]
    /\ sent' = [sent EXCEPT ![t] = <<>>]
    /\ replies' = [replies EXCEPT ![t] = <<>>]
    /\ result' = [result EXCEPT ![t] = NoResult]
    /\ repopulated' = [repopulated EXCEPT ![t] = FALSE]
    /\ UNCHANGED <<ENTRY_STATUS_CACHE, lock, euid, pointer_width, stub>>
    /\ UNCHANGED filterVars

\* The thread has removed its label's entry and has not returned yet.
Invalidated(t) ==
    /\ call[t].op \in {"load", "unload"}
    /\ pc[t] \in {"dispatch", "waiting", "done"}

\* The collaborator that fills the cache lazily (entry_status): it inserts a
\* status under the cache lock.
Populate(label, status) ==
    /\ lock = NoThread
    /\ ENTRY_STATUS_CACHE' = Insert(ENTRY_STATUS_CACHE, label, status)
    /\ repopulated' = [t \in Threads |->
                          repopulated[t] \/ (Invalidated(t) /\ call[t].label = label)]
    /\ UNCHANGED <<lock, pc, call, queue, acc, sent, replies, result,
                   euid, pointer_width, stub>>
    /\ UNCHANGED filterVars

\* ------------------------------------------------------------ JobTypeFilter
SYSTEM == 2
GLOBAL == 4
USER == 8
AGENT == 16
DAEMON == 32
LOADED == 64

AllBits == {SYSTEM, GLOBAL, USER, AGENT, DAEMON, LOADED}

RECURSIVE BitAnd(_, _)
BitAnd(a, b) ==
    IF a = 0 \/ b = 0 THEN 0
    ELSE (a % 2) * (b % 2) + 2 * BitAnd(a \div 2, b \div 2)

RECURSIVE BitXor(_, _)
BitXor(a, b) ==
    IF a = 0 THEN b
    ELSE IF b = 0 THEN a
    ELSE ((a + b) % 2) + 2 * BitXor(a \div 2, b \div 2)

\* #[derive(Default)]: no bit set
JobTypeFilter_default == 0

\* bitflags' toggle
toggle(self, other) == BitXor(self, other)

launchk_default == toggle(JobTypeFilter_default, LOADED)

push_if(self, shown, bit, ch) ==
    IF BitAnd(self, bit) = bit THEN Append(shown, ch) ELSE shown

\* Faulty variant: the DAEMON test comes before the AGENT test.
fmt_daemon_first(self) ==
    push_if(self,
      push_if(self,
        push_if(self,
          push_if(self,
            push_if(self,
              push_if(self, <<>>, SYSTEM, "s"),
              GLOBAL, "g"),
            USER, "u"),
          DAEMON, "d"),
        AGENT, "a"),
      LOADED, "l")

\* impl fmt::Display for JobTypeFilter
fmt(self) ==
    push_if(self,
      push_if(self,
        push_if(self,
          push_if(self,
            push_if(self,
              push_if(self, <<>>, SYSTEM, "s"),
              GLOBAL, "g"),
            USER, "u"),
          AGENT, "a"),
        DAEMON, "d"),
      LOADED, "l")

set_default ==
    /\ jtf' = JobTypeFilter_default
    /\ UNCHANGED display
    /\ UNCHANGED queryVars

set_launchk_default ==
    /\ jtf' = launchk_default
    /\ UNCHANGED display
    /\ UNCHANGED queryVars

toggle_bit(bit) ==
    /\ jtf' = toggle(jtf, bit)
    /\ UNCHANGED display
    /\ UNCHANGED queryVars

to_string ==
    /\ display' = [mask |-> jtf, text |-> fmt(jtf)]
    /\ UNCHANGED jtf
    /\ UNCHANGED queryVars

\* ----------------------------------------------------------- specifications
\* One caller, every operation of the query layer, the cache filled behind it.
Next ==
    \/ \E l \in Labels : find_in_all(Main, l)
    \/ \E d \in Domains, n \in Labels \cup {NoName} : list(Main, d, n)
    \/ list_all(Main)
    \/ \E l \in Labels : load(Main, l)
    \/ \E l \in Labels : unload(Main, l)
    \/ \E l \in Labels, d \in Domains : enable(Main, l, d)
    \/ \E l \in Labels, d \in Domains : disable(Main, l, d)
    \/ dumpstate(Main)
    \/ dumpjpcategory(Main)
    \/ procinfo(Main)
    \/ lock_cache(Main)
    \/ remove_entry(Main)
    \/ pipe_routine(Main)
    \/ passthrough_reply(Main)
    \/ find_in_all_reply(Main)
    \/ list_all_reply(Main)
    \/ dumpstate_reply(Main)
    \/ Return(Main)
    \/ \E l \in Labels, s \in Statuses : Populate(l, s)

Spec == Init /\ [][Next]_vars

\* Several threads loading and unloading, the cache filled behind them.
NextThreads ==
    \/ \E t \in Threads, l \in Labels : load(t, l)
    \/ \E t \in Threads, l \in Labels : unload(t, l)
    \/ \E t \in Threads : lock_cache(t)
    \/ \E t \in Threads : remove_entry(t)
    \/ \E t \in Threads : pipe_routine(t)
    \/ \E t \in Threads : passthrough_reply(t)
    \/ \E t \in Threads : Return(t)
    \/ \E l \in Labels : Populate(l, "loaded")

\* load and unload read neither the effective uid nor a usize.
InitThreads ==
    /\ Init
    /\ euid = 0
    /\ pointer_width = 64

SpecThreads == InitThreads /\ [][NextThreads]_vars

\* find_in_all against a pipe stubbed per domain to succeed or to fail.
InitStub ==
    /\ InitProcess
    /\ euid = 0
    /\ pointer_width = 64
    /\ stub \in [Domains -> {"ok", "fail"}]

NextStub ==
    \/ \E l \in Labels : find_in_all(Main, l)
    \/ pipe_routine(Main)
    \/ find_in_all_reply(Main)
    \/ Return(Main)

SpecStub == InitStub /\ [][NextStub]_vars

\* The filter mask and its rendering.
NextFilter ==
    \/ set_default
    \/ set_launchk_default
    \/ \E bit \in AllBits : toggle_bit(bit)
    \/ to_string

InitFilter ==
    /\ Init
    /\ euid = 0
    /\ pointer_width = 64

SpecFilter == InitFilter /\ [][NextFilter]_vars

\* ------------------------------------------------------------------- claims
Entry(l) == IF l \in DOMAIN ENTRY_STATUS_CACHE THEN ENTRY_STATUS_CACHE[l] ELSE "absent"

\* The operation a step of thread t belongs to (a step of t changes pc[t])
Steps(t) == pc'[t] # pc[t]
OpOfStep(t) == IF pc[t] = "idle" THEN call'[t].op ELSE call[t].op
LabelOfStep(t) == IF pc[t] = "idle" THEN call'[t].label ELSE call[t].label

\* C1: load and unload remove the label's cache entry before the request is
\* dispatched: from the dispatch on, and when the call has returned with
\* success or with failure, the cache holds no entry for the label unless
\* another thread has refilled it since; no step of load or unload changes
\* the entry of any other label.
C1_InvalidateBeforeDispatch ==
    /\ [](\A t \in Threads :
            (Invalidated(t) /\ ~repopulated[t])
                => call[t].label \notin DOMAIN ENTRY_STATUS_CACHE)
    /\ [][\A t \in Threads :
            (Steps(t) /\ OpOfStep(t) \in {"load", "unload"})
                => \A l \in Labels \ {LabelOfStep(t)} : Entry(l)' = Entry(l)]_vars

\* A load has returned a transport failure, its label is gone from the cache
\* and another label's entry is still there.
C1_Witness ==
    \E t \in Threads :
        /\ pc[t] = "done"
        /\ call[t].op = "load"
        /\ result[t].kind = "err"
        /\ ~repopulated[t]
        /\ call[t].label \notin DOMAIN ENTRY_STATUS_CACHE
        /\ DOMAIN ENTRY_STATUS_CACHE # {}

\* C2: find_in_all against a pipe that fails the list request for every
\* domain but RequestorDomain and succeeds for RequestorDomain returns
\* RequestorDomain with the response; against a pipe that fails for every
\* domain it returns NotFound.
C2_FindInRequestorDomain ==
    \A t \in Threads :
        (pc[t] = "done" /\ call[t].op = "find_in_all") =>
            /\ (/\ stub[RequestorDomain] = "ok"
                /\ \A d \in Domains \ {RequestorDomain} : stub[d] = "fail")
                    => (result[t].kind = "ok" /\ result[t].domain = RequestorDomain)
            /\ (\A d \in Domains : stub[d] = "fail")
                    => (result[t].kind = "err" /\ result[t].err = "NotFound")

\* C3: find_in_all sends one list request per domain value, in ascending
\* order from System and strictly below RequestorDomain; the first success
\* ends the call with that domain and that response and nothing is sent
\* after it; NotFound is returned exactly when every probed domain failed,
\* and no transport error reaches the caller.
C3_FirstSuccessWins ==
    \A t \in Threads :
        call[t].op = "find_in_all" =>
            /\ \A i \in 1..Len(sent[t]) :
                /\ sent[t][i].type = System + i - 1
                /\ sent[t][i].type < RequestorDomain
                /\ sent[t][i].routine = "LIST_SERVICES"
                /\ sent[t][i].name = call[t].label
            /\ \A i \in 1..Len(replies[t]) :
                replies[t][i].ok =>
                    /\ i = Len(replies[t])
                    /\ Len(sent[t]) = i
                    /\ pc[t] = "done"
                    /\ result[t].kind = "ok"
                    /\ result[t].domain = sent[t][i].type
                    /\ result[t].resp = replies[t][i].resp
            /\ pc[t] = "done" =>
                /\ result[t].kind \in {"ok", "err"}
                /\ result[t].kind = "err" =>
                    /\ result[t].err = "NotFound"
                    /\ Len(replies[t]) = RequestorDomain - System
                /\ (result[t].kind = "err")
                    <=> (\A i \in 1..Len(replies[t]) : ~replies[t][i].ok)

\* The third probe succeeded after two failures.
C3_Witness ==
    \E t \in Threads :
        /\ pc[t] = "done"
        /\ call[t].op = "find_in_all"
        /\ Len(sent[t]) = 3
        /\ ~replies[t][1].ok /\ ~replies[t][2].ok
        /\ result[t].kind = "ok"
        /\ result[t].domain = UserLogin

\* The labels of the domains that answered with a "services" dictionary
ServicesOf(rs) ==
    UNION {rs[i].resp.services.keys :
            i \in {j \in 1..Len(rs) : rs[j].ok /\ rs[j].resp.services.kind = "dict"}}

\* C4: list_all never fails: whatever each domain's outcome (the request
\* fails, the response has no "services" dictionary, or it has one), every
\* domain is queried and the returned set is the union of the keys of the
\* "services" dictionaries received, each label once.
C4_UnionOfSucceeded ==
    \A t \in Threads :
        (pc[t] = "done" /\ call[t].op = "list_all") =>
            /\ result[t].kind = "ok"
            /\ Len(replies[t]) = Len(everything(euid))
            /\ result[t].labels = ServicesOf(replies[t])

\* A domain failed, a later one had no dictionary, two answered with a
\* common label.
C4_Witness ==
    \E t \in Threads :
        /\ pc[t] = "done"
        /\ call[t].op = "list_all"
        /\ Len(replies[t]) = 4
        /\ replies[t][1].ok /\ replies[t][1].resp.services.kind = "dict"
        /\ ~replies[t][2].ok
        /\ replies[t][3].ok /\ replies[t][3].resp.services.kind = "string"
        /\ replies[t][4].ok /\ replies[t][4].resp.services.kind = "dict"
        /\ replies[t][1].resp.services.keys \cap replies[t][4].resp.services.keys # {}
        /\ result[t].labels = Labels

\* C5: dumpstate returns (4096, handle) for "bytes-written" = 4096,
\* MalformedResponse when the field is absent, ConversionFailure (an error,
\* never a panic) when the field is negative or does not convert to usize,
\* and the allocation error with no request sent when the shared memory
\* cannot be allocated.
C5_DumpstateErrors ==
    \A t \in Threads :
        (pc[t] = "done" /\ call[t].op = "dumpstate") =>
            IF call[t].shmem = NoShmem
            THEN /\ result[t] = ResErr("ResourceAllocationFailure")
                 /\ sent[t] = <<>>
            ELSE /\ Len(replies[t]) = 1
                 /\ LET out == replies[t][1]
                        field == out.resp.bytes
                    IN out.ok =>
                        /\ field.kind = "absent"
                            => result[t] = ResErr("MalformedResponse")
                        /\ (field.kind = "uint64" /\ field.val = U64Page)
                            => result[t] = ResDump(U64Page, call[t].shmem)
                        /\ field.kind = "int64"
                            => result[t] = ResErr("ConversionFailure")
                        /\ (/\ field.kind = "uint64"
                            /\ ~usize_try_from(field.val, pointer_width).ok)
                            => result[t] = ResErr("ConversionFailure")

Letters == <<"s", "g", "u", "a", "d", "l">>

RECURSIVE LettersOf(_, _)
LettersOf(mask, i) ==
    IF i > Len(Letters) THEN <<>>
    ELSE (IF (mask \div (2^i)) % 2 = 1 THEN <<Letters[i]>> ELSE <<>>)
         \o LettersOf(mask, i + 1)

\* C6: the rendering of a mask is the subsequence of s,g,u,a,d,l holding
\* exactly the letters of its set bits; the empty mask of default() renders
\* as the empty string and launchk_default() as "l".
C6_DisplayLetters ==
    /\ display.text = LettersOf(display.mask, 1)
    /\ fmt(jtf) = LettersOf(jtf, 1)
    /\ display.mask = JobTypeFilter_default => display.text = <<>>
    /\ display.mask = launchk_default => display.text = <<"l">>

\* SYSTEM | AGENT | LOADED has been rendered.
C6_Witness ==
    /\ display.mask = SYSTEM + AGENT + LOADED
    /\ display.text = <<"s", "a", "l">>
    /\ jtf = launchk_default

\* C7: every query operation performs at most one round trip per call.
C7_OneRoundTrip ==
    \A t \in Threads : Len(sent[t]) <= 1

\* C7, amended: list, load, unload, enable, disable, dumpstate,
\* dumpjpcategory and procinfo perform at most one round trip per call;
\* find_in_all performs one per probed domain, up to six; list_all performs
\* one per queried domain, three or (privileged) four.
C7_RoundTripsPerOperation ==
    \A t \in Threads :
        /\ call[t].op \in PassThrough \cup {"dumpstate"} => Len(sent[t]) <= 1
        /\ call[t].op = "find_in_all" => Len(sent[t]) <= RequestorDomain - System
        /\ call[t].op = "list_all" => Len(sent[t]) <= Len(everything(euid))
        /\ (pc[t] = "done" /\ call[t].op \in PassThrough) => Len(sent[t]) = 1
        /\ (pc[t] = "done" /\ call[t].op = "find_in_all") => Len(sent[t]) >= 1
        /\ (pc[t] = "done" /\ call[t].op = "list_all")
                => Len(sent[t]) = (IF euid = 0 THEN 4 ELSE 3)

\* An enable has returned a transport failure after its one round trip.
C7_Witness ==
    \E t \in Threads :
        /\ pc[t] = "done"
        /\ call[t].op = "enable"
        /\ result[t].kind = "err"
        /\ Len(sent[t]) = 1

\* C8: list_all sends a list request for System, RequestorUserDomain and
\* RequestorDomain on every call, for User exactly when the effective uid
\* is 0, and for no other domain.
C8_DomainsQueried ==
    \A t \in Threads :
        call[t].op = "list_all" =>
            LET queried == {sent[t][i].type : i \in 1..Len(sent[t])}
                wanted == {System, RequestorUserDomain, RequestorDomain}
                          \cup (IF euid = 0 THEN {User} ELSE {})
            IN /\ queried \subseteq wanted
               /\ Cardinality(queried) = Len(sent[t])
               /\ \A i \in 1..Len(sent[t]) :
                    sent[t][i].routine = "LIST_SERVICES" /\ sent[t][i].name = NoName
               /\ pc[t] = "done" => queried = wanted

\* An unprivileged list_all has returned after three requests, none for User.
C8_Witness ==
    \E t \in Threads :
        /\ pc[t] = "done"
        /\ call[t].op = "list_all"
        /\ euid # 0
        /\ Len(sent[t]) = 3
        /\ \E i \in 1..3 : ~replies[t][i].ok

\* C9: no step of enable, disable, find_in_all, list, list_all, dumpstate,
\* dumpjpcategory or procinfo changes the status cache: only load and
\* unload modify it.
C9_CacheUntouched ==
    [][\A t \in Threads :
        (Steps(t) /\ OpOfStep(t) \notin {"load", "unload"})
            => ENTRY_STATUS_CACHE' = ENTRY_STATUS_CACHE]_vars

\* An enable has returned and its label's entry is still cached.
C9_Witness ==
    \E t \in Threads :
        /\ pc[t] = "done"
        /\ call[t].op = "enable"
        /\ call[t].label \in DOMAIN ENTRY_STATUS_CACHE

\* C10: no thread holds the cache lock while it waits for the pipe: the lock
\* is held only in the removal step, so a thread that wants the lock finds
\* it free or held by a thread that is about to release it, however long
\* other threads wait for the pipe.
C10_LockNotHeldAcrossRoundTrip ==
    /\ \A t \in Threads : lock = t => pc[t] = "locked"
    /\ \A t \in Threads : pc[t] = "waiting" => lock # t
    /\ \A u \in Threads :
        pc[u] = "lock" => (lock = NoThread \/ (lock \in Threads /\ pc[lock] = "locked"))

\* One thread waits for the pipe while another holds the lock.
C10_Witness ==
    \E t, u \in Threads :
        /\ pc[t] = "waiting"
        /\ pc[u] = "locked"
        /\ lock = u

====
